---- MODULE Spec2Model ----
(***************************************************************************)
(* Tressa backend: the request-handling policy layer (rate limiter,        *)
(* content guard, snippet store handlers) and the expiry reaper, as a      *)
(* state machine.                                                          *)
(*                                                                         *)
(* Time is a discrete clock `now`.  The rate-limit window, the request     *)
(* ceilings and the content-size ceilings are scaled down (3600 s, 100 /   *)
(* 200 / 1000 requests, 256 KiB / 1 MiB in the source); the order between  *)
(* them is the source's.                                                   *)
(***************************************************************************)
EXTENDS Integers, Sequences, FiniteSets, TLC

VARIABLES
    now,         \* time.time() / datetime.now(timezone.utc)
    requests,    \* RateLimiter.requests: client_ip -> deque of instants
    admitted,    \* history: client_ip -> endpoint_type -> the accepted instants
                 \* that an interval of one window ending now or later can hold
    pc,          \* concurrently handled requests: where each handler is
    tresses,     \* the table "tresses": id -> row
    next_id,     \* the id the table gives to the next row
    reaper,      \* the task of the cleanup scheduler
    sample       \* a text handed to the functions of the content guard, and
                 \* what they have made of it

vars == <<now, requests, admitted, pc, tresses, next_id, reaper, sample>>

store_vars == <<tresses, next_id, reaper>>

\* ------------------------------------------------------------------ bounds

\* Last instant of the clock.
MaxTime == 2
\* "window": 3600 in every entry of RateLimiter.limits, scaled.
Window == 1
\* limits["public_read"]["requests"]: 100, scaled.
PublicReadLimit == 1
\* limits["raw_content"]["requests"]: 200, scaled.
RawContentLimit == 2
\* limits["default"]["requests"]: 1000, scaled.
DefaultLimit == 3

\* settings.MAX_CONTENT_SIZE_ANONYMOUS: 256 * 1024 bytes, scaled.
MAX_CONTENT_SIZE_ANONYMOUS == 6
\* settings.MAX_CONTENT_SIZE_AUTHENTICATED: 1024 * 1024 bytes, scaled.
MAX_CONTENT_SIZE_AUTHENTICATED == 9

\* timedelta(days=1), in instants of the clock.
Day == 1
\* The default expiry of an anonymous snippet: timedelta(days=30), scaled.
ANONYMOUS_DEFAULT_DAYS == 2
\* The largest expires_in_days: 365, scaled.
MAX_EXPIRES_IN_DAYS == 2
\* The rows the table ever holds.
MaxId == 1
\* Last instant of the clock while the store is in use.
MaxStoreTime == 2
\* The longest of the enumerated texts handed to the content guard.
MaxTextLen == 2
\* The calls of a guard function made on one text.
MaxCalls == 2

\* The text a preview keeps: content[:200].
PREVIEW_CHARS == 200
\* The largest page_size.
MAX_PAGE_SIZE == 100

\* NULL / None.
None == -1

ClientIps == {"ip1", "ip2"}
EndpointTypes == {"public_read", "raw_content", "default"}
\* The clients of the concurrently handled requests.
ConcurrentIps == {"ip1"}
Handlers == {"h1", "h2"}

\* ------------------------------------------------------------ RateLimiter

limits ==
    [public_read |-> [requests |-> PublicReadLimit, window |-> Window],
     raw_content |-> [requests |-> RawContentLimit, window |-> Window],
     default     |-> [requests |-> DefaultLimit,    window |-> Window]]

\* self.limits.get(endpoint_type, self.limits["default"])
limit_config(endpoint_type) ==
    IF endpoint_type \in DOMAIN limits THEN limits[endpoint_type]
    ELSE limits["default"]

\* while request_times and request_times[0] < now - window: popleft()
RECURSIVE evict(_, _, _)
evict(request_times, t, window) ==
    IF request_times # <<>> /\ Head(request_times) < t - window
    THEN evict(Tail(request_times), t, window)
    ELSE request_times

\* The deque of client_ip after the eviction loop of a check made at instant t.
evicted(reqs, client_ip, endpoint_type, t) ==
    evict(reqs[client_ip], t, limit_config(endpoint_type).window)

\* A check that admits one request more than the ceiling.
is_allowed_off_by_one(reqs, client_ip, endpoint_type, t) ==
    ~ (Len(evicted(reqs, client_ip, endpoint_type, t))
         > limit_config(endpoint_type).requests)

\* The value is_allowed returns for a check made at instant t:
\* if len(request_times) >= max_requests: return False
is_allowed(reqs, client_ip, endpoint_type, t) ==
    ~ (Len(evicted(reqs, client_ip, endpoint_type, t))
         >= limit_config(endpoint_type).requests)

\* A check that records the instant of a rejected request too.
requests_after_is_allowed_recording(reqs, client_ip, endpoint_type, t) ==
    [reqs EXCEPT ![client_ip] =
        Append(evicted(reqs, client_ip, endpoint_type, t), t)]

\* RateLimiter.requests after is_allowed: evicted, and the instant recorded
\* when the check is accepted.
requests_after_is_allowed(reqs, client_ip, endpoint_type, t) ==
    [reqs EXCEPT ![client_ip] =
        IF is_allowed(reqs, client_ip, endpoint_type, t)
        THEN Append(evicted(reqs, client_ip, endpoint_type, t), t)
        ELSE evicted(reqs, client_ip, endpoint_type, t)]

Max(a, b) == IF a >= b THEN a ELSE b

\* The value get_remaining_requests returns at instant t (its eviction leaves
\* the same deque as the eviction of the is_allowed that preceded it).
get_remaining_requests(reqs, client_ip, endpoint_type, t) ==
    Max(0, limit_config(endpoint_type).requests
             - Len(evicted(reqs, client_ip, endpoint_type, t)))

\* check_rate_limit: "ok", or the 429 raised with its hints.
check_rate_limit(reqs, client_ip, endpoint_type, t) ==
    IF is_allowed(reqs, client_ip, endpoint_type, t)
    THEN [status |-> 200, detail |-> "", remaining |-> -1]
    ELSE [status |-> 429,
          detail |-> "Rate limit exceeded. Please try again later.",
          remaining |-> get_remaining_requests(
              requests_after_is_allowed(reqs, client_ip, endpoint_type, t),
              client_ip, endpoint_type, t)]

\* ----------------------------------------------------------- ContentGuard
\* A text is a sequence of characters, a character a one-character string.

LowerOf ==
    [A |-> "a", B |-> "b", C |-> "c", D |-> "d", E |-> "e", F |-> "f",
     G |-> "g", H |-> "h", I |-> "i", J |-> "j", K |-> "k", L |-> "l",
     M |-> "m", N |-> "n", O |-> "o", P |-> "p", Q |-> "q", R |-> "r",
     S |-> "s", T |-> "t", U |-> "u", V |-> "v", W |-> "w", X |-> "x",
     Y |-> "y", Z |-> "z"]

\* Case folding of one character (re.IGNORECASE).
Lower(ch) == IF ch \in DOMAIN LowerOf THEN LowerOf[ch] ELSE ch

\* The characters of the model's texts that encode to two bytes in UTF-8.
TwoByteChars == {"é"}

\* \w of a Python 3 str pattern: letters, digits and the underscore.
WordChars ==
    {"a", "b", "c", "d", "e", "f", "g", "h", "i", "j", "k", "l", "m", "n",
     "o", "p", "q", "r", "s", "t", "u", "v", "w", "x", "y", "z",
     "0", "1", "2", "3", "4", "5", "6", "7", "8", "9", "_"}
        \cup DOMAIN LowerOf \cup TwoByteChars

\* \s
SpaceChars == {" ", "\t", "\n", "\r", "\f"}

\* len(content.encode('utf-8'))
RECURSIVE utf8_len(_)
utf8_len(content) ==
    IF content = <<>> THEN 0
    ELSE (IF Head(content) \in TwoByteChars THEN 2 ELSE 1) + utf8_len(Tail(content))

\* html.escape(content) of one character (quote=True).
escape_char(ch) ==
    CASE ch = "&" -> <<"&", "a", "m", "p", ";">>
      [] ch = "<" -> <<"&", "l", "t", ";">>
      [] ch = ">" -> <<"&", "g", "t", ";">>
      [] ch = "\"" -> <<"&", "q", "u", "o", "t", ";">>
      [] ch = "'" -> <<"&", "#", "x", "2", "7", ";">>
      [] OTHER -> <<ch>>

\* html.escape(content)
RECURSIVE html_escape(_)
html_escape(content) ==
    IF content = <<>> THEN <<>>
    ELSE escape_char(Head(content)) \o html_escape(Tail(content))

\* Whether the literal lit stands at position i of text, case ignored.
literal_at(text, i, lit) ==
    /\ i + Len(lit) - 1 <= Len(text)
    /\ \A j \in 1..Len(lit) : Lower(text[i + j - 1]) = Lower(lit[j])

\* The first position >= i where lit stands in text, 0 when there is none.
RECURSIVE find_from(_, _, _)
find_from(text, i, lit) ==
    IF i + Len(lit) - 1 > Len(text) THEN 0
    ELSE IF literal_at(text, i, lit) THEN i
    ELSE find_from(text, i + 1, lit)

ScriptOpen == <<"&", "l", "t", ";", "s", "c", "r", "i", "p", "t">>
ScriptGt == <<"&", "g", "t", ";">>
ScriptClose ==
    <<"&", "l", "t", ";", "/", "s", "c", "r", "i", "p", "t", "&", "g", "t", ";">>

\* The position after the match of
\*   &lt;script.*?&gt;.*?&lt;/script&gt;   (IGNORECASE | DOTALL)
\* that starts at position i of text, 0 when none starts there: the lazy
\* quantifiers stop at the first &gt; and then at the first closing tag.
script_match_end(text, i) ==
    IF ~ literal_at(text, i, ScriptOpen) THEN 0
    ELSE LET g == find_from(text, i + Len(ScriptOpen), ScriptGt) IN
         IF g = 0 THEN 0
         ELSE LET c == find_from(text, g + Len(ScriptGt), ScriptClose) IN
              IF c = 0 THEN 0 ELSE c + Len(ScriptClose)

\* script_pattern.sub('', content) from position i on: the leftmost matches,
\* not overlapping, are removed.
RECURSIVE script_sub(_, _)
script_sub(text, i) ==
    IF i > Len(text) THEN <<>>
    ELSE IF script_match_end(text, i) > 0
         THEN script_sub(text, script_match_end(text, i))
         ELSE <<text[i]>> \o script_sub(text, i + 1)

sanitize_content(content) ==
    IF content = <<>> THEN content
    ELSE script_sub(html_escape(content), 1)

\* A rule of validation_rules is a sequence of atoms: a literal character,
\* "\\s+", "\\s*", "\\w+", or a leading "^".
Quantified == {"\\s+", "\\s*", "\\w+"}

atom_chars(atom) == IF atom = "\\w+" THEN WordChars ELSE SpaceChars

\* Whether the atoms k.. of rule match text from position i on.
RECURSIVE match_here(_, _, _, _)
match_here(rule, k, text, i) ==
    IF k > Len(rule) THEN TRUE
    ELSE IF rule[k] = "\\s*"
    THEN \/ match_here(rule, k + 1, text, i)
         \/ /\ i <= Len(text)
            /\ text[i] \in atom_chars(rule[k])
            /\ match_here(rule, k, text, i + 1)
    ELSE IF rule[k] \in Quantified
    THEN /\ i <= Len(text)
         /\ text[i] \in atom_chars(rule[k])
         /\ \/ match_here(rule, k + 1, text, i + 1)
            \/ match_here(rule, k, text, i + 1)
    ELSE /\ i <= Len(text)
         /\ Lower(text[i]) = Lower(rule[k])
         /\ match_here(rule, k + 1, text, i + 1)

\* re.search(rule, content, re.IGNORECASE)
re_search(rule, text) ==
    IF rule # <<>> /\ rule[1] = "^"
    THEN match_here(rule, 2, text, 1)
    ELSE \E i \in 1..(Len(text) + 1) : match_here(rule, 1, text, i)

validation_rules ==
    [javascript |->
        {<<"f", "u", "n", "c", "t", "i", "o", "n", "\\s+", "\\w+">>,
         <<"v", "a", "r", "\\s+", "\\w+">>,
         <<"c", "o", "n", "s", "t", "\\s+", "\\w+">>,
         <<"l", "e", "t", "\\s+", "\\w+">>},
     python |->
        {<<"d", "e", "f", "\\s+", "\\w+">>,
         <<"i", "m", "p", "o", "r", "t", "\\s+", "\\w+">>,
         <<"f", "r", "o", "m", "\\s+", "\\w+">>,
         <<"c", "l", "a", "s", "s", "\\s+", "\\w+">>},
     java |->
        {<<"p", "u", "b", "l", "i", "c", "\\s+", "c", "l", "a", "s", "s">>,
         <<"p", "r", "i", "v", "a", "t", "e", "\\s+", "\\w+">>,
         <<"p", "u", "b", "l", "i", "c", "\\s+", "\\w+">>},
     html |->
        {<<"<", "h", "t", "m", "l">>, <<"<", "h", "e", "a", "d">>,
         <<"<", "b", "o", "d", "y">>, <<"<", "d", "i", "v">>},
     css |->
        {<<"\\w+", "\\s*", "{">>, <<":", "\\s*", "\\w+", ";">>,
         <<"@", "m", "e", "d", "i", "a">>},
     json |->
        {<<"^", "\\s*", "{">>, <<"^", "\\s*", "[">>},
     sql |->
        {<<"S", "E", "L", "E", "C", "T", "\\s+">>,
         <<"I", "N", "S", "E", "R", "T", "\\s+">>,
         <<"U", "P", "D", "A", "T", "E", "\\s+">>,
         <<"D", "E", "L", "E", "T", "E", "\\s+">>}]

\* str.lower() of the language tags the model's requests carry.
LanguageLower == [Python |-> "python", JSON |-> "json", SQL |-> "sql"]

language_lower(language) ==
    IF language \in DOMAIN LanguageLower THEN LanguageLower[language] ELSE language

validate_content_type(language, content) ==
    IF language = "" \/ content = <<>> THEN TRUE
    ELSE IF language_lower(language) \notin DOMAIN validation_rules THEN TRUE
    ELSE \E rule \in validation_rules[language_lower(language)] :
            re_search(rule, content)

\* Settings.MAX_CONTENT_SIZE_ANONYMOUS and Settings.MAX_CONTENT_SIZE_AUTHENTICATED
\* as config.py writes them, in bytes.
SettingsMaxContentSizeAnonymous == 256 * 1024
SettingsMaxContentSizeAuthenticated == 1024 * 1024

\* settings.MAX_CONTENT_SIZE_ANONYMOUS / settings.MAX_CONTENT_SIZE_AUTHENTICATED
max_content_size(is_authenticated) ==
    IF is_authenticated THEN MAX_CONTENT_SIZE_AUTHENTICATED
    ELSE MAX_CONTENT_SIZE_ANONYMOUS

\* A size check that counts characters instead of bytes.
validate_content_size_in_characters(content, is_authenticated) ==
    IF content = <<>> THEN [status |-> 200, detail |-> ""]
    ELSE IF Len(content) > max_content_size(is_authenticated)
    THEN [status |-> 413,
          detail |-> IF is_authenticated
                     THEN "Content size exceeds the maximum limit for authenticated users"
                     ELSE "Content size exceeds the maximum limit for anonymous users"]
    ELSE [status |-> 200, detail |-> ""]

\* validate_content_size: the 413 it raises, or status 200 when it returns.
validate_content_size(content, is_authenticated) ==
    IF content = <<>> THEN [status |-> 200, detail |-> ""]
    ELSE IF utf8_len(content) > max_content_size(is_authenticated)
    THEN [status |-> 413,
          detail |-> IF is_authenticated
                     THEN "Content size exceeds the maximum limit for authenticated users"
                     ELSE "Content size exceeds the maximum limit for anonymous users"]
    ELSE [status |-> 200, detail |-> ""]

\* ----------------------------------------------------------- SnippetStore
\* A row of the table "tresses" is a record
\*   [id, title, content, language, is_public, owner_id, owner_username,
\*    created_at, expires_at]
\* and `tresses` maps the ids of the rows that exist to them.  A NULL column
\* (owner_id, expires_at) and an absent current_user or expires_in_days hold
\* None.

\* The username of the User with this id.
username_of(user_id) == IF user_id = 1 THEN "alice" ELSE "bob"

\* timedelta(days=d) on the clock.
timedelta_days(d) == d * Day

\* An expiry check that lets a row live through the instant of its expires_at.
is_expired_after(row, t) == row.expires_at # None /\ row.expires_at < t

\* tress.expires_at and tress.expires_at <= now
is_expired(row, t) == row.expires_at # None /\ row.expires_at <= t

\* (Tress.expires_at.is_(None)) | (Tress.expires_at > now)
not_expired(row, t) == row.expires_at = None \/ row.expires_at > t

Response(status, detail, body) ==
    [status |-> status, detail |-> detail, body |-> body]

\* raise HTTPException(status_code=status, detail=detail)
HTTPException(status, detail) == Response(status, detail, <<>>)

\* What a handler leaves behind: its response, the table, the id sequence of
\* the table and the limiter's deques.
Outcome(resp, table, seq_id, reqs) ==
    [response |-> resp, tresses |-> table, next_id |-> seq_id, requests |-> reqs]

\* check_rate_limit raised its 429: nothing but the limiter has changed.
RateLimited(client_ip, endpoint_type) ==
    Outcome(HTTPException(429, check_rate_limit(requests, client_ip, endpoint_type, now).detail),
            tresses, next_id,
            requests_after_is_allowed(requests, client_ip, endpoint_type, now))

\* A TressCreate whose expires_in_days may be 0.
TressCreate_valid_ge0(tress) ==
    \/ tress.expires_in_days = None
    \/ tress.expires_in_days >= 0 /\ tress.expires_in_days <= MAX_EXPIRES_IN_DAYS

\* TressCreate: expires_in_days: Optional[int] = Field(None, ge=1, le=365)
TressCreate_valid(tress) ==
    \/ tress.expires_in_days = None
    \/ tress.expires_in_days >= 1 /\ tress.expires_in_days <= MAX_EXPIRES_IN_DAYS

\* POST /api/tress/
create_tress(tress, client_ip, current_user) ==
    LET endpoint_type == IF current_user = None THEN "public_read" ELSE "default"
        reqs == requests_after_is_allowed(requests, client_ip, endpoint_type, now)
        fail(resp) == Outcome(resp, tresses, next_id, reqs)
        size == validate_content_size(tress.content, current_user # None)
        sanitized_content == sanitize_content(tress.content)
        expires_at ==
            IF tress.expires_in_days # None
            THEN now + timedelta_days(tress.expires_in_days)
            ELSE IF current_user = None
            THEN now + timedelta_days(ANONYMOUS_DEFAULT_DAYS)
            ELSE None
        db_tress ==
            [id |-> next_id,
             title |-> tress.title,
             content |-> sanitized_content,
             language |-> tress.language,
             is_public |-> tress.is_public,
             owner_id |-> IF current_user # None THEN current_user ELSE None,
             owner_username |-> IF current_user # None
                                THEN username_of(current_user) ELSE "Anonymous",
             created_at |-> now,
             expires_at |-> expires_at]
    IN  IF ~ is_allowed(requests, client_ip, endpoint_type, now)
        THEN RateLimited(client_ip, endpoint_type)
        ELSE IF size.status # 200
        THEN fail(HTTPException(size.status, size.detail))
        ELSE IF ~ validate_content_type(tress.language, tress.content)
        THEN fail(HTTPException(400, "Content does not match the specified language type"))
        ELSE IF /\ tress.expires_in_days # None
                /\ current_user = None
                /\ tress.expires_in_days > MAX_EXPIRES_IN_DAYS
        THEN fail(HTTPException(400, "Anonymous users can only set expiration up to 365 days"))
        ELSE Outcome(Response(200, "", db_tress),
                     (next_id :> db_tress) @@ tresses, next_id + 1, reqs)

\* An update that counts the days of expires_in_days from the creation of
\* the row.
update_tress_from_created_at(tress_id, tress, client_ip, current_user) ==
    LET reqs == requests_after_is_allowed(requests, client_ip, "default", now)
        fail(resp) == Outcome(resp, tresses, next_id, reqs)
        db_tress == tresses[tress_id]
        size == validate_content_size(tress.content, TRUE)
        expires_at ==
            IF tress.expires_in_days # None
            THEN db_tress.created_at + timedelta_days(tress.expires_in_days)
            ELSE db_tress.expires_at
        updated ==
            [db_tress EXCEPT !.title = tress.title,
                             !.content = sanitize_content(tress.content),
                             !.language = tress.language,
                             !.is_public = tress.is_public,
                             !.expires_at = expires_at]
    IN  IF ~ is_allowed(requests, client_ip, "default", now)
        THEN RateLimited(client_ip, "default")
        ELSE IF tress_id \notin DOMAIN tresses
        THEN fail(HTTPException(404, "Tress not found"))
        ELSE IF is_expired(db_tress, now)
        THEN fail(HTTPException(404, "Tress has expired"))
        ELSE IF db_tress.owner_id # current_user
        THEN fail(HTTPException(403, "Not authorized to update this tress"))
        ELSE IF size.status # 200
        THEN fail(HTTPException(size.status, size.detail))
        ELSE IF ~ validate_content_type(tress.language, tress.content)
        THEN fail(HTTPException(400, "Content does not match the specified language type"))
        ELSE Outcome(Response(200, "", updated),
                     [tresses EXCEPT ![tress_id] = updated], next_id, reqs)

\* An update that checks the owner before it checks the expiry.
update_tress_owner_first(tress_id, tress, client_ip, current_user) ==
    LET reqs == requests_after_is_allowed(requests, client_ip, "default", now)
        fail(resp) == Outcome(resp, tresses, next_id, reqs)
        db_tress == tresses[tress_id]
        size == validate_content_size(tress.content, TRUE)
        sanitized_content == sanitize_content(tress.content)
        expires_at ==
            IF tress.expires_in_days # None
            THEN now + timedelta_days(tress.expires_in_days)
            ELSE db_tress.expires_at
        updated ==
            [db_tress EXCEPT !.title = tress.title,
                             !.content = sanitized_content,
                             !.language = tress.language,
                             !.is_public = tress.is_public,
                             !.expires_at = expires_at]
    IN  IF ~ is_allowed(requests, client_ip, "default", now)
        THEN RateLimited(client_ip, "default")
        ELSE IF tress_id \notin DOMAIN tresses
        THEN fail(HTTPException(404, "Tress not found"))
        ELSE IF db_tress.owner_id # current_user
        THEN fail(HTTPException(403, "Not authorized to update this tress"))
        ELSE IF is_expired(db_tress, now)
        THEN fail(HTTPException(404, "Tress has expired"))
        ELSE IF size.status # 200
        THEN fail(HTTPException(size.status, size.detail))
        ELSE IF ~ validate_content_type(tress.language, tress.content)
        THEN fail(HTTPException(400, "Content does not match the specified language type"))
        ELSE Outcome(Response(200, "", updated),
                     [tresses EXCEPT ![tress_id] = updated], next_id, reqs)

\* PUT /api/tress/{tress_id}
update_tress(tress_id, tress, client_ip, current_user) ==
    LET reqs == requests_after_is_allowed(requests, client_ip, "default", now)
        fail(resp) == Outcome(resp, tresses, next_id, reqs)
        db_tress == tresses[tress_id]
        size == validate_content_size(tress.content, TRUE)
        sanitized_content == sanitize_content(tress.content)
        expires_at ==
            IF tress.expires_in_days # None
            THEN now + timedelta_days(tress.expires_in_days)
            ELSE db_tress.expires_at
        updated ==
            [db_tress EXCEPT !.title = tress.title,
                             !.content = sanitized_content,
                             !.language = tress.language,
                             !.is_public = tress.is_public,
                             !.expires_at = expires_at]
    IN  IF ~ is_allowed(requests, client_ip, "default", now)
        THEN RateLimited(client_ip, "default")
        ELSE IF tress_id \notin DOMAIN tresses
        THEN fail(HTTPException(404, "Tress not found"))
        ELSE IF is_expired(db_tress, now)
        THEN fail(HTTPException(404, "Tress has expired"))
        ELSE IF db_tress.owner_id # current_user
        THEN fail(HTTPException(403, "Not authorized to update this tress"))
        ELSE IF size.status # 200
        THEN fail(HTTPException(size.status, size.detail))
        ELSE IF ~ validate_content_type(tress.language, tress.content)
        THEN fail(HTTPException(400, "Content does not match the specified language type"))
        ELSE Outcome(Response(200, "", updated),
                     [tresses EXCEPT ![tress_id] = updated], next_id, reqs)

\* A visibility check that forgets the owner.
not_authorized_owner_too(tress, current_user) == ~ tress.is_public

\* The visibility check of read_tress and read_tress_raw: whether the 403 is
\* raised.
not_authorized(tress, current_user) ==
    IF current_user = None
    THEN ~ tress.is_public
    ELSE ~ tress.is_public /\ tress.owner_id # current_user

\* GET /api/tress/{tress_id}
read_tress(tress_id, client_ip, current_user) ==
    LET limited == current_user = None
        reqs == IF limited
                THEN requests_after_is_allowed(requests, client_ip, "public_read", now)
                ELSE requests
        fail(resp) == Outcome(resp, tresses, next_id, reqs)
        tress == tresses[tress_id]
    IN  IF limited /\ ~ is_allowed(requests, client_ip, "public_read", now)
        THEN RateLimited(client_ip, "public_read")
        ELSE IF tress_id \notin DOMAIN tresses
        THEN fail(HTTPException(404, "Tress not found"))
        ELSE IF is_expired(tress, now)
        THEN fail(HTTPException(404, "Tress has expired"))
        ELSE IF not_authorized(tress, current_user)
        THEN fail(HTTPException(403, "Not authorized to access this tress"))
        ELSE fail(Response(200, "", tress))

\* hashlib.md5(content.encode('utf-8')).hexdigest(): a text without quote
\* characters, one per content.
generate_etag(content) == <<"md5(">> \o content \o <<")">>

\* if_none_match.strip('"')
RECURSIVE lstrip_quotes(_)
lstrip_quotes(value) ==
    IF value # <<>> /\ Head(value) = "\""
    THEN lstrip_quotes(Tail(value)) ELSE value

RECURSIVE rstrip_quotes(_)
rstrip_quotes(value) ==
    IF value # <<>> /\ value[Len(value)] = "\""
    THEN rstrip_quotes(SubSeq(value, 1, Len(value) - 1)) ELSE value

strip_quotes(value) == rstrip_quotes(lstrip_quotes(value))

\* A comparison that keeps the quotes of the header.
check_if_none_match_quoted(headers, etag) ==
    IF "If-None-Match" \notin DOMAIN headers THEN FALSE
    ELSE IF headers["If-None-Match"] = <<>> THEN FALSE
    ELSE headers["If-None-Match"] = etag

\* check_if_none_match: headers maps the names of the request's headers to
\* their values; request.headers.get is None for a name it does not hold.
check_if_none_match(headers, etag) ==
    IF "If-None-Match" \notin DOMAIN headers THEN FALSE
    ELSE IF headers["If-None-Match"] = <<>> THEN FALSE
    ELSE strip_quotes(headers["If-None-Match"]) = etag

content_type_map ==
    [javascript |-> "text/javascript", python |-> "text/x-python",
     java |-> "text/x-java-source", cpp |-> "text/x-c++src", c |-> "text/x-csrc",
     html |-> "text/html", css |-> "text/css", json |-> "application/json",
     xml |-> "application/xml", yaml |-> "text/yaml", markdown |-> "text/markdown",
     sql |-> "text/x-sql", shell |-> "text/x-shellscript",
     bash |-> "text/x-shellscript", typescript |-> "text/typescript",
     go |-> "text/x-go", rust |-> "text/x-rust", php |-> "text/x-php",
     ruby |-> "text/x-ruby"]

\* content_type_map.get(tress.language.lower(), "text/plain")
content_type(language) ==
    IF language_lower(language) \in DOMAIN content_type_map
    THEN content_type_map[language_lower(language)]
    ELSE "text/plain"

\* "text/" in response.headers.get("Content-Type", "")
is_text_type(ctype) ==
    ctype \notin {"application/json", "application/xml"}

\* The PlainTextResponse of read_tress_raw after add_security_headers.
raw_response(tress) ==
    [content |-> tress.content,
     content_type |-> content_type(tress.language),
     etag |-> <<"\"">> \o generate_etag(tress.content) \o <<"\"">>,
     cache_control |-> IF tress.is_public THEN "public, max-age=3600"
                       ELSE "public, max-age=300",
     security_headers |-> TRUE,
     content_security_policy |-> is_text_type(content_type(tress.language))]

\* A get-raw that compares the tag before it checks who may read the row.
read_tress_raw_conditional_first(tress_id, client_ip, current_user, headers) ==
    LET limited == current_user = None
        reqs == IF limited
                THEN requests_after_is_allowed(requests, client_ip, "raw_content", now)
                ELSE requests
        fail(resp) == Outcome(resp, tresses, next_id, reqs)
        tress == tresses[tress_id]
    IN  IF limited /\ ~ is_allowed(requests, client_ip, "raw_content", now)
        THEN RateLimited(client_ip, "raw_content")
        ELSE IF tress_id \notin DOMAIN tresses
        THEN fail(HTTPException(404, "Tress not found"))
        ELSE IF is_expired(tress, now)
        THEN fail(HTTPException(404, "Tress has expired"))
        ELSE IF check_if_none_match(headers, generate_etag(tress.content))
        THEN fail(Response(304, "", <<>>))
        ELSE IF not_authorized(tress, current_user)
        THEN fail(HTTPException(403, "Not authorized to access this tress"))
        ELSE fail(Response(200, "", raw_response(tress)))

\* GET /api/tress/{tress_id}/raw
read_tress_raw(tress_id, client_ip, current_user, headers) ==
    LET limited == current_user = None
        reqs == IF limited
                THEN requests_after_is_allowed(requests, client_ip, "raw_content", now)
                ELSE requests
        fail(resp) == Outcome(resp, tresses, next_id, reqs)
        tress == tresses[tress_id]
    IN  IF limited /\ ~ is_allowed(requests, client_ip, "raw_content", now)
        THEN RateLimited(client_ip, "raw_content")
        ELSE IF tress_id \notin DOMAIN tresses
        THEN fail(HTTPException(404, "Tress not found"))
        ELSE IF is_expired(tress, now)
        THEN fail(HTTPException(404, "Tress has expired"))
        ELSE IF not_authorized(tress, current_user)
        THEN fail(HTTPException(403, "Not authorized to access this tress"))
        ELSE IF check_if_none_match(headers, generate_etag(tress.content))
        THEN fail(Response(304, "", <<>>))
        ELSE fail(Response(200, "", raw_response(tress)))

\* A delete without the ownership check.
delete_tress_by_anyone(tress_id, current_user) ==
    LET fail(resp) == Outcome(resp, tresses, next_id, requests)
    IN  IF tress_id \notin DOMAIN tresses
        THEN fail(HTTPException(404, "Tress not found"))
        ELSE Outcome(Response(200, "", [message |-> "Tress deleted successfully"]),
                     [i \in DOMAIN tresses \ {tress_id} |-> tresses[i]],
                     next_id, requests)

\* A delete that treats an expired row as update_tress does.
delete_tress_unless_expired(tress_id, current_user) ==
    LET fail(resp) == Outcome(resp, tresses, next_id, requests)
        tress == tresses[tress_id]
    IN  IF tress_id \notin DOMAIN tresses
        THEN fail(HTTPException(404, "Tress not found"))
        ELSE IF is_expired(tress, now)
        THEN fail(HTTPException(404, "Tress has expired"))
        ELSE IF tress.owner_id # current_user
        THEN fail(HTTPException(403, "Not authorized to delete this tress"))
        ELSE Outcome(Response(200, "", [message |-> "Tress deleted successfully"]),
                     [i \in DOMAIN tresses \ {tress_id} |-> tresses[i]],
                     next_id, requests)

\* DELETE /api/tress/{tress_id}
delete_tress(tress_id, current_user) ==
    LET fail(resp) == Outcome(resp, tresses, next_id, requests)
        tress == tresses[tress_id]
    IN  IF tress_id \notin DOMAIN tresses
        THEN fail(HTTPException(404, "Tress not found"))
        ELSE IF tress.owner_id # current_user
        THEN fail(HTTPException(403, "Not authorized to delete this tress"))
        ELSE Outcome(Response(200, "", [message |-> "Tress deleted successfully"]),
                     [i \in DOMAIN tresses \ {tress_id} |-> tresses[i]],
                     next_id, requests)

Min(a, b) == IF a <= b THEN a ELSE b

\* The orders in which a query may return a set of rows.
orderings(rows) ==
    {o \in [1..Cardinality(rows) -> rows] :
        \A i, j \in 1..Cardinality(rows) : i # j => o[i] # o[j]}

\* .order_by(Tress.created_at.desc()): rows of one instant come in any order.
orderings_created_at_desc(rows) ==
    {o \in orderings(rows) :
        \A i, j \in 1..Cardinality(rows) :
            i < j => o[i].created_at >= o[j].created_at}

\* .offset(offset).limit(limit) of a result
offset_limit(result, offset, limit) ==
    SubSeq(result, offset + 1, Min(offset + limit, Len(result)))

\* Tress.is_public == True, and not expired
public_rows(t) ==
    {tresses[i] : i \in {j \in DOMAIN tresses :
        tresses[j].is_public /\ not_expired(tresses[j], t)}}

\* Tress.owner_id == current_user.id, and not expired
owned_rows(current_user, t) ==
    {tresses[i] : i \in {j \in DOMAIN tresses :
        tresses[j].owner_id = current_user /\ not_expired(tresses[j], t)}}

\* GET /api/tress/ : result is the order the query returns its rows in.
read_tresses(skip, limit, result) ==
    Outcome(Response(200, "", offset_limit(result, skip, limit)),
            tresses, next_id, requests)

\* GET /api/tress/my
read_user_tresses(current_user, result) ==
    Outcome(Response(200, "", result), tresses, next_id, requests)

\* tress.content[:200] + "..." if len(tress.content) > 200 else tress.content
preview_content(content) ==
    IF Len(content) > PREVIEW_CHARS
    THEN SubSeq(content, 1, PREVIEW_CHARS) \o <<".", ".", ".">>
    ELSE content

TressPreview(tress) ==
    [id |-> tress.id, title |-> tress.title, language |-> tress.language,
     is_public |-> tress.is_public, owner_id |-> tress.owner_id,
     owner_username |-> tress.owner_username, created_at |-> tress.created_at,
     expires_at |-> tress.expires_at,
     content_preview |-> preview_content(tress.content)]

\* A page response whose total_pages rounds down.
TressPageResponse_floor(page, page_size, total_items, result) ==
    LET total_pages == total_items \div page_size
        offset == (page - 1) * page_size
        rows == offset_limit(result, offset, page_size)
    IN  [items |-> [i \in 1..Len(rows) |-> TressPreview(rows[i])],
         pagination |-> [page |-> page,
                         page_size |-> page_size,
                         total_items |-> total_items,
                         total_pages |-> total_pages,
                         has_next |-> page < total_pages,
                         has_prev |-> page > 1]]

\* The TressPageResponse both paginated lists build from the count of the
\* matching rows and the ordered result.
TressPageResponse(page, page_size, total_items, result) ==
    LET total_pages == (total_items + page_size - 1) \div page_size
        offset == (page - 1) * page_size
        rows == offset_limit(result, offset, page_size)
    IN  [items |-> [i \in 1..Len(rows) |-> TressPreview(rows[i])],
         pagination |-> [page |-> page,
                         page_size |-> page_size,
                         total_items |-> total_items,
                         total_pages |-> total_pages,
                         has_next |-> page < total_pages,
                         has_prev |-> page > 1]]

\* The checks of the pagination parameters: the 400 raised, or status 200.
validate_pagination(page, page_size) ==
    IF page < 1 THEN HTTPException(400, "Page must be >= 1")
    ELSE IF page_size < 1 \/ page_size > MAX_PAGE_SIZE
    THEN HTTPException(400, "Page size must be between 1 and 100")
    ELSE Response(200, "", <<>>)

\* GET /api/tress/public/pages
read_public_tresses_paginated(page, page_size, client_ip, current_user, result) ==
    LET limited == current_user = None
        reqs == IF limited
                THEN requests_after_is_allowed(requests, client_ip, "public_read", now)
                ELSE requests
        fail(resp) == Outcome(resp, tresses, next_id, reqs)
    IN  IF limited /\ ~ is_allowed(requests, client_ip, "public_read", now)
        THEN RateLimited(client_ip, "public_read")
        ELSE IF validate_pagination(page, page_size).status # 200
        THEN fail(validate_pagination(page, page_size))
        ELSE fail(Response(200, "",
                 TressPageResponse(page, page_size,
                                   Cardinality(public_rows(now)), result)))

\* GET /api/tress/my/pages
read_user_tresses_paginated(page, page_size, current_user, result) ==
    LET fail(resp) == Outcome(resp, tresses, next_id, requests)
    IN  IF validate_pagination(page, page_size).status # 200
        THEN fail(validate_pagination(page, page_size))
        ELSE fail(Response(200, "",
                 TressPageResponse(page, page_size,
                                   Cardinality(owned_rows(current_user, now)), result)))

\* get_current_user: the dependency of the endpoints that require a user.
get_current_user(current_user) ==
    IF current_user = None THEN HTTPException(401, "Not authenticated")
    ELSE Response(200, "", <<>>)

\* ------------------------------------------- calls of the content guard
\* The functions of the content guard are pure; they are applied to texts
\* drawn from GuardContents.

\* The characters html.escape rewrites, and one it leaves alone.
GuardAlphabet == {"&", "<", ">", "\"", "'", "a"}

RECURSIVE TextsUpTo(_)
TextsUpTo(n) ==
    IF n = 0 THEN {<<>>}
    ELSE LET shorter == TextsUpTo(n - 1)
         IN  shorter \cup {Append(t, ch) : t \in shorter, ch \in GuardAlphabet}

\* <script>a</script>
ContentScript ==
    <<"<", "s", "c", "r", "i", "p", "t", ">", "a",
      "<", "/", "s", "c", "r", "i", "p", "t", ">">>

GuardContents == TextsUpTo(MaxTextLen) \cup {ContentScript}

InitGuard ==
    /\ now = 0
    /\ requests = [c \in ClientIps |-> <<>>]
    /\ admitted = [c \in ClientIps |-> [k \in EndpointTypes |-> <<>>]]
    /\ pc = [h \in Handlers |-> [at |-> "idle"]]
    /\ tresses = <<>>
    /\ next_id = 1
    /\ reaper = [at |-> "cleanup", now |-> None, sleep |-> 0]
    /\ \E c \in GuardContents :
          sample = [content |-> c, result |-> c, calls |-> 0]

\* content = sanitize_content(content)
Call_sanitize_content ==
    /\ sample.calls < MaxCalls
    /\ sample' = [sample EXCEPT !.result = sanitize_content(@), !.calls = @ + 1]
    /\ UNCHANGED <<now, requests, admitted, pc, tresses, next_id, reaper>>

NextGuard == Call_sanitize_content

SpecGuard == InitGuard /\ [][NextGuard]_vars

\* ------------------------------------------------- calls of the limiter

Append_admitted(adm, client_ip, endpoint_type, t) ==
    [adm EXCEPT ![client_ip][endpoint_type] = Append(@, t)]

\* The history without the instants no interval of one window length that
\* ends at t or later can hold.
recent(adm, t) ==
    [c \in ClientIps |-> [k \in EndpointTypes |->
        SelectSeq(adm[c][k], LAMBDA a : a + limit_config(k).window >= t)]]

\* rate_limiter.is_allowed(client_ip, endpoint_type)
Call_is_allowed ==
    \E c \in ClientIps, k \in EndpointTypes :
        /\ requests' = requests_after_is_allowed(requests, c, k, now)
        /\ admitted' = IF is_allowed(requests, c, k, now)
                       THEN Append_admitted(admitted, c, k, now)
                       ELSE admitted
        /\ UNCHANGED <<sample, now, pc, store_vars>>

\* rate_limiter.get_remaining_requests(client_ip, endpoint_type): evicts too.
Call_get_remaining_requests ==
    \E c \in ClientIps, k \in EndpointTypes :
        /\ requests' = [requests EXCEPT ![c] = evicted(requests, c, k, now)]
        /\ UNCHANGED <<sample, now, admitted, pc, store_vars>>

\* The clock advances.
Tick ==
    /\ now < MaxTime
    /\ now' = now + 1
    /\ admitted' = recent(admitted, now + 1)
    /\ UNCHANGED <<sample, requests, pc, store_vars>>

Init ==
    /\ now = 0
    /\ requests = [c \in ClientIps |-> <<>>]
    /\ admitted = [c \in ClientIps |-> [k \in EndpointTypes |-> <<>>]]
    /\ pc = [h \in Handlers |-> [at |-> "idle"]]
    /\ tresses = <<>>
    /\ next_id = 1
    /\ reaper = [at |-> "cleanup", now |-> None, sleep |-> 0]
    /\ sample = [content |-> <<>>, result |-> <<>>, calls |-> 0]

NextRL == Call_is_allowed \/ Call_get_remaining_requests \/ Tick

SpecRL == Init /\ [][NextRL]_vars

\* ------------------------------------------- concurrently handled requests
\* Every endpoint is an `async def` run by one event loop: a handler runs
\* without interruption between two awaits.  check_rate_limit and is_allowed
\* are plain functions without an await, called at the top of the handler,
\* after the awaits of the dependencies and before the awaits of the store.

\* A check whose compare and record steps are separated by an await.
RateLimitStep_split(h) ==
    \/ /\ pc[h].at = "idle"
       /\ \E c \in ConcurrentIps, k \in EndpointTypes :
            /\ requests' = [requests EXCEPT ![c] = evicted(requests, c, k, now)]
            /\ pc' = [pc EXCEPT ![h] =
                         IF is_allowed(requests, c, k, now)
                         THEN [at |-> "record", c |-> c, k |-> k]
                         ELSE [at |-> "rejected"]]
       /\ UNCHANGED <<sample, now, admitted, store_vars>>
    \/ /\ pc[h].at = "record"
       /\ requests' = [requests EXCEPT ![pc[h].c] = Append(@, now)]
       /\ admitted' = Append_admitted(admitted, pc[h].c, pc[h].k, now)
       /\ pc' = [pc EXCEPT ![h] = [at |-> "db"]]
       /\ UNCHANGED <<sample, now, store_vars>>

\* The handler of a request runs check_rate_limit: evict, compare and record
\* in one step; a rejected request ends with the 429, an accepted one goes on
\* to the awaits of the store.
RateLimitStep(h) ==
    /\ pc[h].at = "idle"
    /\ \E c \in ConcurrentIps, k \in EndpointTypes :
         /\ requests' = requests_after_is_allowed(requests, c, k, now)
         /\ IF check_rate_limit(requests, c, k, now).status = 200
            THEN /\ admitted' = Append_admitted(admitted, c, k, now)
                 /\ pc' = [pc EXCEPT ![h] = [at |-> "db"]]
            ELSE /\ admitted' = admitted
                 /\ pc' = [pc EXCEPT ![h] = [at |-> "rejected"]]
    /\ UNCHANGED <<sample, now, store_vars>>

\* The awaits of the store end, or the 429 is sent: the request is over.
Complete(h) ==
    /\ pc[h].at \in {"db", "rejected"}
    /\ pc' = [pc EXCEPT ![h] = [at |-> "idle"]]
    /\ UNCHANGED <<sample, now, requests, admitted, store_vars>>

RateLimitAny == \E h \in Handlers : RateLimitStep(h)
CompleteAny == \E h \in Handlers : Complete(h)

NextConcurrent == RateLimitAny \/ CompleteAny \/ Tick

SpecConcurrent == Init /\ [][NextConcurrent]_vars

\* ------------------------------------------------------ request handling
\* The requests the service receives, one action per endpoint.  FastAPI
\* resolves the dependencies of an endpoint (the current user) and validates
\* the body (TressCreate) before it runs the endpoint.

\* The texts the requests submit.
ContentJson == <<"{", "}">>
ContentMarkup == <<"a", "<", "b">>
ContentPython == <<"d", "e", "f", " ", "é", "x", "y">>
ContentLarge == <<"x", "x", "x", "x", "x", "x", "x", "x", "x", "x", "x", "x">>

\* Accepted from everyone; accepted from a user only; refused for its
\* language; refused for its size.
Submissions ==
    {[title |-> "markup", content |-> ContentMarkup, language |-> "text"],
     [title |-> "python", content |-> ContentPython, language |-> "Python"],
     [title |-> "not python", content |-> ContentJson, language |-> "Python"],
     [title |-> "large", content |-> ContentLarge, language |-> "text"]}

TressCreate(s, p, d) ==
    [title |-> s.title, content |-> s.content, language |-> s.language,
     is_public |-> p, expires_in_days |-> d]

\* The bodies of POST and PUT: the accepted submissions, public with and
\* without expires_in_days, and private; the refused ones; and bodies whose
\* expires_in_days is out of range.
TressCreates ==
    {TressCreate(s, TRUE, d) :
        s \in {x \in Submissions : x.title = "markup"}, d \in {None, 1}}
        \cup {TressCreate(s, FALSE, None) :
                s \in {x \in Submissions : x.title = "markup"}}
        \cup {TressCreate(s, TRUE, None) : s \in Submissions}
        \cup {TressCreate(s, TRUE, d) :
                s \in {x \in Submissions : x.title = "markup"},
                d \in {0, MAX_EXPIRES_IN_DAYS + 1}}

UserIds == {1, 2}
CurrentUsers == {None} \cup UserIds
\* The address the requests to the store come from.
StoreIps == {"ip1"}
\* The ids the requests name: those of the rows, and one no row ever has.
TressIds == 1..(MaxId + 1)

\* The headers of a GET .../raw: none, or an If-None-Match that is empty or
\* the tag of a stored text in quotes.
RawHeaders ==
    {<<>>,
     "If-None-Match" :> <<>>,
     "If-None-Match" :>
        (<<"\"">> \o generate_etag(sanitize_content(ContentMarkup)) \o <<"\"">>)}

\* The request is answered: what the handler leaves behind becomes the state.
Answer(outcome) ==
    /\ tresses' = outcome.tresses
    /\ next_id' = outcome.next_id
    /\ requests' = outcome.requests
    /\ UNCHANGED <<sample, now, admitted, pc, reaper>>

\* The request is refused before its endpoint runs.
Refuse(resp) == Answer(Outcome(resp, tresses, next_id, requests))

RequestValidationError == HTTPException(422, "Unprocessable Entity")

\* The users who submit snippets (the other user only reads, updates and
\* deletes).
Submitters == {None, 1}

\* A POST whose body is validated after the endpoint has run.
post_validated_late(tress, client_ip, current_user) ==
    IF ~ TressCreate_valid(tress)
    THEN [create_tress(tress, client_ip, current_user)
             EXCEPT !.response = RequestValidationError]
    ELSE create_tress(tress, client_ip, current_user)

\* The whole of a POST: validation of the body, then the endpoint.
post(tress, client_ip, current_user) ==
    IF ~ TressCreate_valid(tress)
    THEN Outcome(RequestValidationError, tresses, next_id, requests)
    ELSE create_tress(tress, client_ip, current_user)

\* The whole of a PUT: the required user, validation of the body, then the
\* endpoint.
put(tress_id, tress, client_ip, current_user) ==
    IF get_current_user(current_user).status # 200
    THEN Outcome(get_current_user(current_user), tresses, next_id, requests)
    ELSE IF ~ TressCreate_valid(tress)
    THEN Outcome(RequestValidationError, tresses, next_id, requests)
    ELSE update_tress(tress_id, tress, client_ip, current_user)

\* The whole of a DELETE: the required user, then the endpoint.
delete(tress_id, current_user) ==
    IF get_current_user(current_user).status # 200
    THEN Outcome(get_current_user(current_user), tresses, next_id, requests)
    ELSE delete_tress(tress_id, current_user)

\* A create that stores no username with the row of an anonymous submitter.
Post_create_tress_nameless ==
    \E tress \in TressCreates, ip \in StoreIps, u \in Submitters :
        /\ post(tress, ip, u).next_id <= MaxId + 1
        /\ Answer([post(tress, ip, u) EXCEPT
                      !.tresses = [id \in DOMAIN @ |->
                                      IF @[id].owner_id = None
                                      THEN [@[id] EXCEPT !.owner_username = ""]
                                      ELSE @[id]]])

Post_create_tress ==
    \E tress \in TressCreates, ip \in StoreIps, u \in Submitters :
        /\ post(tress, ip, u).next_id <= MaxId + 1
        /\ Answer(post(tress, ip, u))

\* The users without a row send one body: their requests end before the
\* body is looked at.
Put_update_tress ==
    \E id \in TressIds, tress \in TressCreates, ip \in StoreIps, u \in CurrentUsers :
        /\ u \notin Submitters \/ u = None =>
              tress = TressCreate(CHOOSE s \in Submissions : s.title = "markup",
                                  TRUE, None)
        /\ Answer(put(id, tress, ip, u))

Get_read_tresses ==
    \E skip \in {0, 1}, limit \in {1, 100}, result \in orderings(public_rows(now)) :
        Answer(read_tresses(skip, limit, result))

Get_read_user_tresses ==
    \E u \in CurrentUsers :
        IF get_current_user(u).status # 200
        THEN Refuse(get_current_user(u))
        ELSE \E result \in orderings(owned_rows(u, now)) :
                Answer(read_user_tresses(u, result))

\* The page and page_size of the paginated requests: a page or a size out of
\* range, and pages of one and of two rows.
PageRequests ==
    {[page |-> 0, page_size |-> 1], [page |-> 1, page_size |-> 0],
     [page |-> 1, page_size |-> MAX_PAGE_SIZE + 1], [page |-> 1, page_size |-> 1],
     [page |-> 2, page_size |-> 1], [page |-> 1, page_size |-> 2]}

Get_read_public_tresses_paginated ==
    \E p \in PageRequests, ip \in StoreIps, u \in CurrentUsers,
       result \in orderings_created_at_desc(public_rows(now)) :
        Answer(read_public_tresses_paginated(p.page, p.page_size, ip, u, result))

Get_read_user_tresses_paginated ==
    \E u \in CurrentUsers :
        IF get_current_user(u).status # 200
        THEN Refuse(get_current_user(u))
        ELSE \E p \in PageRequests,
                result \in orderings_created_at_desc(owned_rows(u, now)) :
                Answer(read_user_tresses_paginated(p.page, p.page_size, u, result))

Get_read_tress ==
    \E id \in TressIds, ip \in StoreIps, u \in CurrentUsers :
        Answer(read_tress(id, ip, u))

Get_read_tress_raw ==
    \E id \in TressIds, ip \in StoreIps, u \in CurrentUsers, headers \in RawHeaders :
        Answer(read_tress_raw(id, ip, u, headers))

Delete_delete_tress ==
    \E id \in TressIds, u \in CurrentUsers :
        Answer(delete(id, u))

\* The clock of the store advances.
TickStore == now < MaxStoreTime /\ Tick

Next ==
    \/ Post_create_tress
    \/ Put_update_tress
    \/ Get_read_tresses
    \/ Get_read_user_tresses
    \/ Get_read_public_tresses_paginated
    \/ Get_read_user_tresses_paginated
    \/ Get_read_tress
    \/ Get_read_tress_raw
    \/ Delete_delete_tress
    \/ TickStore

Spec == Init /\ [][Next]_vars

\* The requests that write a snippet's content and those that read it raw.
NextRaw ==
    \/ Post_create_tress
    \/ Put_update_tress
    \/ Get_read_tress_raw
    \/ TickStore

SpecRaw == Init /\ [][NextRaw]_vars

\* ---- the paginated lists over a table that holds several rows
\* The rows were stored by create_tress for requests of users 1 and 2 that
\* came from the client ip2 at the instants 0 and 1, within one window and
\* within the default ceiling; the lists are then requested from ip1.

\* What the submitter of a row chose: the visibility, the user, and
\* expires_in_days.
PageRowKinds ==
    {[is_public |-> TRUE, owner_id |-> 1, expires_in_days |-> None],
     [is_public |-> FALSE, owner_id |-> 1, expires_in_days |-> None],
     [is_public |-> TRUE, owner_id |-> 2, expires_in_days |-> 1]}

\* db_tress of create_tress for such a request made at instant t.
PageRow(id, kind, t) ==
    [id |-> id,
     title |-> "markup",
     content |-> sanitize_content(ContentMarkup),
     language |-> "text",
     is_public |-> kind.is_public,
     owner_id |-> kind.owner_id,
     owner_username |-> username_of(kind.owner_id),
     created_at |-> t,
     expires_at |-> IF kind.expires_in_days # None
                    THEN t + timedelta_days(kind.expires_in_days)
                    ELSE None]

\* The instant row i of n was created at, when k of them were created at 0.
PageRowInstant(i, k) == IF i <= k THEN 0 ELSE 1

InitPages ==
    /\ now = 1
    /\ pc = [h \in Handlers |-> [at |-> "idle"]]
    /\ reaper = [at |-> "cleanup", now |-> None, sleep |-> 0]
    /\ sample = [content |-> <<>>, result |-> <<>>, calls |-> 0]
    /\ \E n \in 0..DefaultLimit :
         \E kinds \in [1..n -> PageRowKinds], k \in 0..n :
            /\ tresses = [i \in 1..n |-> PageRow(i, kinds[i], PageRowInstant(i, k))]
            /\ next_id = n + 1
            /\ requests = [c \in ClientIps |->
                              IF c = "ip2"
                              THEN [i \in 1..n |-> PageRowInstant(i, k)]
                              ELSE <<>>]
            /\ admitted = [c \in ClientIps |-> [e \in EndpointTypes |->
                              IF c = "ip2" /\ e = "default"
                              THEN [i \in 1..n |-> PageRowInstant(i, k)]
                              ELSE <<>>]]

NextPages ==
    \/ Get_read_public_tresses_paginated
    \/ Get_read_user_tresses_paginated
    \/ TickStore

SpecPages == InitPages /\ [][NextPages]_vars

\* The requests that store and replace rows.
NextUpdate == Post_create_tress \/ Put_update_tress \/ TickStore

SpecUpdate == Init /\ [][NextUpdate]_vars

\* Texts that pass the size check of their submitter: plain text and text
\* made of characters that html.escape replaces, at the ceiling of each class.
SizedContents ==
    {ContentMarkup,
     [i \in 1..MAX_CONTENT_SIZE_ANONYMOUS |-> "x"],
     [i \in 1..MAX_CONTENT_SIZE_ANONYMOUS |-> "<"],
     [i \in 1..MAX_CONTENT_SIZE_AUTHENTICATED |-> "&"]}

SizedBody(c) ==
    [title |-> "sized", content |-> c, language |-> "text",
     is_public |-> TRUE, expires_in_days |-> None]

Post_create_tress_sized ==
    \E c \in SizedContents, ip \in StoreIps, u \in Submitters :
        /\ post(SizedBody(c), ip, u).next_id <= MaxId + 1
        /\ Answer(post(SizedBody(c), ip, u))

Put_update_tress_sized ==
    \E id \in TressIds, c \in SizedContents, ip \in StoreIps, u \in UserIds :
        Answer(put(id, SizedBody(c), ip, u))

\* The requests that store a text.
NextSized == Post_create_tress_sized \/ Put_update_tress_sized \/ TickStore

SpecSized == Init /\ [][NextSized]_vars

\* The requests that write to the table.
NextWrites ==
    \/ Post_create_tress
    \/ Put_update_tress
    \/ Delete_delete_tress
    \/ TickStore

SpecWrites == Init /\ [][NextWrites]_vars

\* ------------------------------------------------------------- the reaper
\* create_cleanup_task starts start_cleanup_scheduler as one task at startup.
\* `reaper` is that task: where it stands (at), the instant its sweep
\* captured (now) and the seconds of the sleep it is in (sleep).  Each await of the store
\* may fail with an exception.  The clock of the model does not measure the
\* sleeps: a sleeping task wakes at any later step.

\* await asyncio.sleep(3600)
CLEANUP_INTERVAL == 3600
\* await asyncio.sleep(300)
RETRY_INTERVAL == 300

\* A bulk delete that matches every row.
expired_tresses_unfiltered(t) == DOMAIN tresses

\* Tress.expires_at.is_not(None), Tress.expires_at <= now
expired_tresses(t) ==
    {id \in DOMAIN tresses : tresses[id].expires_at # None /\ tresses[id].expires_at <= t}

\* cleanup_expired_tresses up to its select: now is captured and the expired
\* rows are read; without any the sweep returns.
cleanup_select ==
    /\ reaper.at = "cleanup"
    /\ \E ok \in BOOLEAN :
          reaper' = [reaper EXCEPT
                        !.now = IF ok /\ expired_tresses(now) # {} THEN now ELSE None,
                        !.at = IF ~ ok THEN "raised"
                               ELSE IF expired_tresses(now) # {} THEN "selected"
                               ELSE "returned"]
    /\ UNCHANGED <<sample, now, requests, admitted, pc, tresses, next_id>>

\* The bulk delete, executed in the transaction of the sweep.
cleanup_delete ==
    /\ reaper.at = "selected"
    /\ \E ok \in BOOLEAN :
          reaper' = [reaper EXCEPT !.at = IF ok THEN "deleted" ELSE "raised",
                                   !.now = IF ok THEN reaper.now ELSE None]
    /\ UNCHANGED <<sample, now, requests, admitted, pc, tresses, next_id>>

\* The commit: the rows the bulk delete matches leave the table; a failure is
\* rolled back and raised.
cleanup_commit ==
    /\ reaper.at = "deleted"
    /\ \E ok \in BOOLEAN :
          /\ reaper' = [reaper EXCEPT !.at = IF ok THEN "returned" ELSE "raised",
                                      !.now = None]
          /\ tresses' = IF ok
                        THEN [id \in DOMAIN tresses \ expired_tresses(reaper.now)
                                  |-> tresses[id]]
                        ELSE tresses
    /\ UNCHANGED <<sample, now, requests, admitted, pc, next_id>>

\* A scheduler whose loop does not catch the exception of a sweep.
start_cleanup_scheduler_uncaught ==
    /\ reaper.at \in {"returned", "raised"}
    /\ reaper' = [reaper EXCEPT
                     !.at = IF reaper.at = "returned" THEN "sleep" ELSE "done",
                     !.sleep = IF reaper.at = "returned" THEN CLEANUP_INTERVAL ELSE 0]
    /\ UNCHANGED <<sample, now, requests, admitted, pc, tresses, next_id>>

\* start_cleanup_scheduler after the sweep: the sleep of an hour when it
\* returned, the sleep of five minutes in the except branch when it raised.
start_cleanup_scheduler ==
    /\ reaper.at \in {"returned", "raised"}
    /\ reaper' = [reaper EXCEPT
                     !.at = "sleep",
                     !.sleep = IF reaper.at = "returned"
                               THEN CLEANUP_INTERVAL ELSE RETRY_INTERVAL]
    /\ UNCHANGED <<sample, now, requests, admitted, pc, tresses, next_id>>

\* A loop that starts the next sweep after the sleep of an hour only.
next_sweep_after_success ==
    /\ reaper.at = "sleep"
    /\ reaper.sleep = CLEANUP_INTERVAL
    /\ reaper' = [reaper EXCEPT !.at = "cleanup", !.sleep = 0]
    /\ UNCHANGED <<sample, now, requests, admitted, pc, tresses, next_id>>

\* The sleep ends and `while True` starts the next sweep.
next_sweep ==
    /\ reaper.at = "sleep"
    /\ reaper' = [reaper EXCEPT !.at = "cleanup", !.sleep = 0]
    /\ UNCHANGED <<sample, now, requests, admitted, pc, tresses, next_id>>

NextReaper ==
    \/ cleanup_select
    \/ cleanup_delete
    \/ cleanup_commit
    \/ start_cleanup_scheduler
    \/ next_sweep
    \/ Post_create_tress
    \/ TickStore

SpecReaper == Init /\ [][NextReaper]_vars

\* The largest id of a row while the sweeps are watched.
MaxSweepId == 2

\* The creates that matter to a sweep: a body that passes every check, with
\* and without expires_in_days, from a user and from an anonymous client.
Post_create_tress_expiry ==
    \E d \in {None, 1}, ip \in StoreIps, u \in Submitters :
        LET tress == TressCreate(CHOOSE s \in Submissions : s.title = "markup", TRUE, d)
        IN  /\ post(tress, ip, u).next_id <= MaxSweepId + 1
            /\ Answer(post(tress, ip, u))

\* The updates that matter to a sweep: the owner of a row replaces its
\* expiry, or keeps it, with a body that passes every check.
Put_update_tress_expiry ==
    \E id \in DOMAIN tresses, d \in {None, 1}, ip \in StoreIps, u \in UserIds :
        /\ tresses[id].owner_id = u
        /\ Answer(put(id,
                      TressCreate(CHOOSE s \in Submissions : s.title = "markup",
                                  TRUE, d),
                      ip, u))

\* The sweeps of the reaper interleaved with the requests that create,
\* replace and delete rows.
NextSweeps ==
    \/ cleanup_select
    \/ cleanup_delete
    \/ cleanup_commit
    \/ start_cleanup_scheduler
    \/ next_sweep
    \/ Post_create_tress_expiry
    \/ Put_update_tress_expiry
    \/ Delete_delete_tress
    \/ TickStore

SpecSweeps == Init /\ [][NextSweeps]_vars

\* The reaper task while the application runs, with the creates that give
\* it rows to remove.
NextRunning ==
    \/ cleanup_select
    \/ cleanup_delete
    \/ cleanup_commit
    \/ start_cleanup_scheduler
    \/ next_sweep
    \/ Post_create_tress_expiry
    \/ TickStore

\* The event loop resumes the task whenever it can run: a sleep ends and the
\* loop goes on.  The store eventually stops failing: a statement that is
\* executed again and again does not fail every time.
FairRunning ==
    /\ WF_vars(start_cleanup_scheduler)
    /\ WF_vars(next_sweep)
    /\ SF_vars(cleanup_select /\ reaper'.at # "raised")
    /\ SF_vars(cleanup_delete /\ reaper'.at # "raised")
    /\ SF_vars(cleanup_commit /\ reaper'.at # "raised")

SpecRunning == Init /\ [][NextRunning]_vars /\ FairRunning

\* The table after the commit of a sweep that captured the instant t.
swept(t) == [id \in DOMAIN tresses \ expired_tresses(t) |-> tresses[id]]

\* lifespan after its yield: cleanup_task.cancel(), then await cleanup_task.
\* The task is suspended at one of its awaits (the select, the bulk delete,
\* the commit, the rollback or a sleep) and asyncio.CancelledError is raised
\* there.  CancelledError is not an Exception: neither `except Exception` of
\* cleanup_expired_tresses nor that of start_cleanup_scheduler catches it, the
\* session is closed without a commit and the task ends.  A commit that was
\* being awaited may or may not have reached the table.
lifespan_shutdown ==
    /\ reaper.at \in {"cleanup", "selected", "deleted", "raised", "sleep"}
    /\ reaper' = [reaper EXCEPT !.at = "cancelled", !.now = None, !.sleep = 0]
    /\ tresses' \in IF reaper.at = "deleted"
                    THEN {tresses, swept(reaper.now)}
                    ELSE {tresses}
    /\ UNCHANGED <<sample, now, requests, admitted, pc, next_id>>

NextShutdown ==
    \/ cleanup_select
    \/ cleanup_delete
    \/ cleanup_commit
    \/ start_cleanup_scheduler
    \/ next_sweep
    \/ lifespan_shutdown
    \/ Post_create_tress
    \/ TickStore

SpecShutdown == Init /\ [][NextShutdown]_vars

\* cleanup_expired_tresses from its select to its commit, as the requests see
\* it: the rows that had expired at the instant the sweep captured, and still
\* match when it commits, leave the table.  A sweep that fails leaves the
\* table as it was.
cleanup_expired_tresses ==
    /\ \E t \in 0..now : tresses' = swept(t)
    /\ UNCHANGED <<sample, now, requests, admitted, pc, next_id, reaper>>

\* The requests that write to the table, and the sweeps of the reaper.
NextStore ==
    \/ Post_create_tress
    \/ Put_update_tress
    \/ Delete_delete_tress
    \/ cleanup_expired_tresses
    \/ TickStore

SpecStore == Init /\ [][NextStore]_vars

\* ------------------------------------------------------------------ claims

\* The instants of a sequence that lie in the closed interval [lo, hi].
CountIn(seq, lo, hi) ==
    Cardinality({i \in 1..Len(seq) : seq[i] >= lo /\ seq[i] <= hi})

\* C1: for every client and endpoint class, the checks accepted inside any
\* interval of one window length never exceed the ceiling of the class (an
\* interval holding accepted checks is covered by the one that starts at the
\* first of them).
C1_WindowCeiling ==
    \A c \in ClientIps, k \in EndpointTypes :
        \A i \in 1..Len(admitted[c][k]) :
            CountIn(admitted[c][k], admitted[c][k][i],
                    admitted[c][k][i] + limit_config(k).window)
                <= limit_config(k).requests

\* C1 witness: a client has used its whole public_read ceiling inside the
\* window and its next check is rejected.
C1_Witness ==
    \E c \in ClientIps :
        /\ CountIn(admitted[c]["public_read"], now - Window, now) = PublicReadLimit
        /\ ~ is_allowed(requests, c, "public_read", now)
        /\ now > 0

\* C2: for every client, the checks accepted under the other classes leave
\* the answers of a class alone: a class with fewer accepted checks inside the
\* window than its ceiling accepts the next check, and its remaining allowance
\* is the ceiling less its own accepted checks.
C2_ClassesIndependent ==
    \A c \in ClientIps, k \in EndpointTypes :
        LET used == CountIn(admitted[c][k], now - limit_config(k).window, now)
        IN  /\ used < limit_config(k).requests => is_allowed(requests, c, k, now)
            /\ get_remaining_requests(requests, c, k, now)
                    = limit_config(k).requests - used

\* C6: under every interleaving of the handlers, the checks accepted for a
\* client and class inside the window never exceed the ceiling of the class,
\* and every accepted check is recorded in the deque of the client.
C6_NoDoubleAdmit ==
    \A c \in ConcurrentIps :
        /\ \A k \in EndpointTypes :
              CountIn(admitted[c][k], now - limit_config(k).window, now)
                  <= limit_config(k).requests
        /\ CountIn(requests[c], now, now)
              = CountIn(admitted[c]["public_read"], now, now)
                  + CountIn(admitted[c]["raw_content"], now, now)
                  + CountIn(admitted[c]["default"], now, now)

\* C6 witness: while an accepted request is still at the awaits of the store,
\* a second handler has run its check for the same client and been rejected,
\* the public_read ceiling being used up.
C6_Witness ==
    \E c \in ConcurrentIps :
        /\ pc["h1"].at = "db"
        /\ pc["h2"].at = "rejected"
        /\ CountIn(admitted[c]["public_read"], now - Window, now) = PublicReadLimit
        /\ ~ is_allowed(requests, c, "public_read", now)

\* ------------------------------------------------ claims about the store

\* The row's expires_at is present and has passed.
Expired(id) == tresses[id].expires_at # None /\ tresses[id].expires_at <= now

\* The ids of the rows in a list of rows or of previews.
IdsOf(rows) == {rows[i].id : i \in 1..Len(rows)}

\* The rows the public lists and the lists of a user are to show.
LivePublic == {id \in DOMAIN tresses : tresses[id].is_public /\ ~ Expired(id)}
LiveOwned(u) == {id \in DOMAIN tresses : tresses[id].owner_id = u /\ ~ Expired(id)}

\* C3: a row whose expires_at is present and <= now is not found by any read
\* path that reaches the store: get-by-id, get-raw and update answer 404
\* whoever asks, the plain and the paginated lists, public and owned, hold
\* only rows that have not expired and count only those in total_items; and
\* a row created at this instant is not answered 404.
C3_ExpiredNotFound ==
    /\ \A id \in DOMAIN tresses, ip \in StoreIps, u \in CurrentUsers :
          Expired(id) =>
            /\ read_tress(id, ip, u).response.status \in {404, 429}
            /\ \A headers \in RawHeaders :
                  read_tress_raw(id, ip, u, headers).response.status \in {404, 429}
            /\ \A tress \in TressCreates :
                  put(id, tress, ip, u).response.status \in {404, 429, 401, 422}
    /\ \A result \in orderings(public_rows(now)), skip \in {0, 1}, limit \in {1, 100} :
          IdsOf(read_tresses(skip, limit, result).response.body) \subseteq LivePublic
    /\ \A u \in UserIds :
          /\ \A result \in orderings(owned_rows(u, now)) :
                IdsOf(read_user_tresses(u, result).response.body) = LiveOwned(u)
          /\ \A result \in orderings_created_at_desc(owned_rows(u, now)) :
                LET r == read_user_tresses_paginated(1, 2, u, result).response
                IN  /\ IdsOf(r.body.items) \subseteq LiveOwned(u)
                    /\ r.body.pagination.total_items = Cardinality(LiveOwned(u))
    /\ \A result \in orderings_created_at_desc(public_rows(now)), u \in UserIds :
          LET r == read_public_tresses_paginated(1, 2, "ip1", u, result).response
          IN  /\ IdsOf(r.body.items) \subseteq LivePublic
              /\ r.body.pagination.total_items = Cardinality(LivePublic)
    /\ \A id \in DOMAIN tresses, ip \in StoreIps, u \in CurrentUsers :
          tresses[id].created_at = now =>
            /\ ~ Expired(id)
            /\ read_tress(id, ip, u).response.status # 404
            /\ read_tress_raw(id, ip, u, <<>>).response.status # 404

\* C3 witness: a public row of user 1 has expired and is still stored; its
\* owner's get-by-id, get-raw and update find nothing, and the public list is
\* empty.
C3_Witness ==
    /\ 1 \in DOMAIN tresses
    /\ Expired(1)
    /\ tresses[1].is_public
    /\ tresses[1].owner_id = 1
    /\ read_tress(1, "ip1", 1).response.status = 404
    /\ read_tress_raw(1, "ip1", 1, <<>>).response.status = 404
    /\ \E tress \in TressCreates : put(1, tress, "ip1", 1).response.status = 404
    /\ read_tresses(0, 100, <<>>).response.body = <<>>
    /\ public_rows(now) = {}

\* The requester may read the row: it is public, or the requester is its
\* owner.
Readable(id, u) == tresses[id].is_public \/ (u # None /\ tresses[id].owner_id = u)

\* C4: for a row that has not expired and a request that passes the rate
\* limit, get-by-id answers 200 with the row's content when the row is public
\* or the requester is its owner and 403 without content otherwise; get-raw
\* does the same, answering 304 instead of 200 when the request's tag matches.
C4_ReadableIffPublicOrOwner ==
    \A id \in DOMAIN tresses, ip \in StoreIps, u \in CurrentUsers :
        ~ Expired(id) =>
            /\ LET r == read_tress(id, ip, u).response
               IN  r.status # 429 =>
                     IF Readable(id, u)
                     THEN r.status = 200 /\ r.body.content = tresses[id].content
                     ELSE r.status = 403 /\ r.body = <<>>
            /\ \A headers \in RawHeaders :
                 LET r == read_tress_raw(id, ip, u, headers).response
                 IN  r.status # 429 =>
                       IF Readable(id, u)
                       THEN \/ r.status = 200 /\ r.body.content = tresses[id].content
                            \/ /\ r.status = 304
                               /\ check_if_none_match(headers,
                                      generate_etag(tresses[id].content))
                       ELSE r.status = 403 /\ r.body = <<>>

\* C4 witness: user 1's private row has not expired; its owner reads it by id
\* and raw, another user and an anonymous requester are answered 403.
C4_Witness ==
    /\ 1 \in DOMAIN tresses
    /\ ~ Expired(1)
    /\ ~ tresses[1].is_public
    /\ tresses[1].owner_id = 1
    /\ read_tress(1, "ip1", 1).response.status = 200
    /\ read_tress_raw(1, "ip1", 1, <<>>).response.status = 200
    /\ read_tress(1, "ip1", 2).response.status = 403
    /\ read_tress(1, "ip1", None).response.status = 403
    /\ read_tress_raw(1, "ip1", None, <<>>).response.status = 403

\* C5: an update or a delete request changes the store only when its
\* requester is authenticated and is the owner of the row it names, and then
\* it changes that row alone; so a row without an owner is changed or removed
\* by no update or delete request.
C5_OnlyOwnerChanges ==
    \A id \in TressIds, u \in CurrentUsers :
        LET Others(table) == [i \in DOMAIN table \ {id} |-> table[i]]
            ByOwner(o) ==
                LET after == o.tresses
                IN  after # tresses =>
                        /\ id \in DOMAIN tresses
                        /\ u # None
                        /\ tresses[id].owner_id = u
                        /\ Others(after) = Others(tresses)
        IN  /\ ByOwner(delete(id, u))
            /\ \A tress \in TressCreates, ip \in StoreIps :
                  ByOwner(put(id, tress, ip, u))

\* C5 witness: the stored row has no owner; the update and the delete of an
\* authenticated user reach the ownership check and are answered 403.
C5_Witness ==
    /\ 1 \in DOMAIN tresses
    /\ tresses[1].owner_id = None
    /\ ~ Expired(1)
    /\ delete(1, 1).response.status = 403
    /\ delete(1, 1).tresses = tresses
    /\ \E tress \in TressCreates :
          /\ put(1, tress, "ip1", 1).response.status = 403
          /\ put(1, tress, "ip1", 1).tresses = tresses

\* C7: a create or update request that is not answered 200 leaves the store
\* as it was: the rows, their fields and the id sequence.
C7_FailureLeavesStore ==
    \A tress \in TressCreates, ip \in StoreIps, u \in CurrentUsers :
        LET Kept(o) ==
                LET out == o
                IN  out.response.status # 200 =>
                        out.tresses = tresses /\ out.next_id = next_id
        IN  /\ Kept(post(tress, ip, u))
            /\ \A id \in TressIds : Kept(put(id, tress, ip, u))

\* C7 witness: with a row of user 1 stored, requests are refused for their
\* size (413), their language (400), their body (422), the owner (403) and
\* the id (404).
C7_Witness ==
    /\ 1 \in DOMAIN tresses
    /\ tresses[1].owner_id = 1
    /\ ~ Expired(1)
    /\ \A status \in {413, 400, 422} :
          \E tress \in TressCreates :
              /\ post(tress, "ip1", 1).response.status = status
              /\ put(1, tress, "ip1", 1).response.status = status
    /\ \E tress \in TressCreates :
          /\ put(1, tress, "ip1", 2).response.status = 403
          /\ put(2, tress, "ip1", 1).response.status = 404

\* C8: the 404 for an id that is not stored and the 404 for a stored row that
\* has expired are the same response, on get-by-id, get-raw and update.
C8_SameNotFound ==
    \A absent \in TressIds \ DOMAIN tresses, id \in DOMAIN tresses,
       ip \in StoreIps, u \in CurrentUsers :
        Expired(id) =>
            LET Same(a, b) ==
                    (a.status = 404 /\ b.status = 404) => a.detail = b.detail
            IN  /\ Same(read_tress(absent, ip, u).response,
                        read_tress(id, ip, u).response)
                /\ Same(read_tress_raw(absent, ip, u, <<>>).response,
                        read_tress_raw(id, ip, u, <<>>).response)
                /\ \A tress \in TressCreates :
                      Same(put(absent, tress, ip, u).response,
                           put(id, tress, ip, u).response)

\* C9: a delete by the owner removes the row, expired or not, and the id is
\* not given to a later row; a delete of an id that is not stored is answered
\* 404 and a delete by another user 403, and neither changes the store.
C9_OwnerDeletesExpired ==
    /\ \A id \in DOMAIN tresses : id < next_id
    /\ \A id \in TressIds, u \in UserIds :
          LET o == delete(id, u)
          IN  /\ o.next_id = next_id
              /\ IF id \notin DOMAIN tresses
                 THEN o.response.status = 404 /\ o.tresses = tresses
                 ELSE IF tresses[id].owner_id # u
                 THEN o.response.status = 403 /\ o.tresses = tresses
                 ELSE /\ o.response.status = 200
                      /\ DOMAIN o.tresses = DOMAIN tresses \ {id}
                      /\ \A i \in DOMAIN o.tresses : o.tresses[i] = tresses[i]

\* C9 witness: the row of user 1 has expired and is still stored; its owner's
\* delete removes it, another user's is answered 403, and the delete of the
\* id no row has 404.
C9_Witness ==
    /\ 1 \in DOMAIN tresses
    /\ Expired(1)
    /\ tresses[1].owner_id = 1
    /\ delete(1, 1).response.status = 200
    /\ 1 \notin DOMAIN delete(1, 1).tresses
    /\ delete(1, 2).response.status = 403
    /\ delete(2, 1).response.status = 404

\* What the scheduler does when a sweep has ended.
C10_Step ==
    reaper' # reaper =>
        /\ reaper.at = "raised" =>
              reaper'.at = "sleep" /\ reaper'.sleep = RETRY_INTERVAL
        /\ reaper.at = "returned" =>
              reaper'.at = "sleep" /\ reaper'.sleep = CLEANUP_INTERVAL
        /\ reaper.at = "sleep" => reaper'.at = "cleanup"
        /\ reaper'.at \in {"cleanup", "selected", "deleted", "returned", "raised", "sleep"}

\* C10: the step the scheduler takes after a sweep depends on how the sweep
\* ended alone: after a sweep that raised it sleeps 300 s, after a sweep that
\* returned 3600 s, whatever the sweeps before did; from either sleep it
\* starts the next sweep, and no step ends the loop.
C10_WaitByOutcome == [][C10_Step]_vars

\* C10 witness: the scheduler sleeps its hour after a sweep that deleted the
\* expired row.
C10_Witness ==
    /\ reaper.at = "sleep"
    /\ reaper.sleep = CLEANUP_INTERVAL
    /\ tresses = <<>>
    /\ next_id > 1

\* What a cancellation that meets a sweep between its select and its commit
\* leaves behind, were the sweep to run to its commit.
C11_Step ==
    (reaper'.at = "cancelled" /\ reaper.at \in {"selected", "deleted"}) =>
        tresses' = swept(reaper.now)

\* C11: a cancellation requested while a sweep is between its select, its
\* bulk delete and its commit does not abort the sweep: when the task has
\* ended, the rows the sweep selected have left the table.
C11_SweepRunsToCommit == [][C11_Step]_vars

\* C12: rejected checks record no instant (the instants of a client's deque
\* that lie in the window are those of its accepted checks); so when more
\* than one window has passed since the last accepted check of a client, its
\* next check is accepted for every class, whatever the deque still holds.
C12_AdmittedAfterWindow ==
    \A c \in ClientIps :
        /\ CountIn(requests[c], now - Window, now)
              = Len(admitted[c]["public_read"]) + Len(admitted[c]["raw_content"])
                  + Len(admitted[c]["default"])
        /\ (\A k \in EndpointTypes : admitted[c][k] = <<>>) =>
              \A k \in EndpointTypes :
                  /\ is_allowed(requests, c, k, now)
                  /\ requests_after_is_allowed(requests, c, k, now)[c] = <<now>>

\* C12 witness: a client used up the largest ceiling, so that every class
\* rejected it; more than a window later its deque still holds those instants
\* and its next public_read check is accepted.
C12_Witness ==
    \E c \in ClientIps :
        /\ Len(requests[c]) = DefaultLimit
        /\ \A i \in 1..Len(requests[c]) : requests[c][i] < now - Window
        /\ \A k \in EndpointTypes : admitted[c][k] = <<>>
        /\ is_allowed(requests, c, "public_read", now)

\* The contents the table comes to hold.
StoredContents == {sanitize_content(s.content) : s \in Submissions}

\* C13: for a row that has not expired and a requester who may read it, a
\* get-raw without If-None-Match is answered with the content and the quoted
\* tag of the content; a get-raw whose If-None-Match is that tag, in quotes
\* or without, is answered 304 with no body and no headers of its own; and
\* one whose If-None-Match is the tag of another content is answered like
\* the request without the header.
C13_ConditionalRaw ==
    \A id \in DOMAIN tresses, ip \in StoreIps, u \in CurrentUsers :
        (~ Expired(id) /\ Readable(id, u)) =>
            LET first == read_tress_raw(id, ip, u, <<>>).response
                again(tag) ==
                    read_tress_raw(id, ip, u, "If-None-Match" :> tag).response
            IN  first.status # 429 =>
                  /\ first.status = 200
                  /\ first.body.content = tresses[id].content
                  /\ first.body.etag
                        = <<"\"">> \o generate_etag(tresses[id].content) \o <<"\"">>
                  /\ first.body.security_headers
                  /\ \A tag \in {first.body.etag, strip_quotes(first.body.etag)} :
                        LET r == again(tag)
                        IN  r.status = 304 /\ r.body = <<>>
                  /\ \A c \in StoredContents \ {tresses[id].content} :
                        \A tag \in {generate_etag(c),
                                     <<"\"">> \o generate_etag(c) \o <<"\"">>} :
                            LET r == again(tag)
                            IN  r.status = 200 /\ r.body = first.body

\* C13 witness: user 1's row holds the second text; the tag of its content is
\* answered 304, the tag of the first text the full body.
C13_Witness ==
    /\ 1 \in DOMAIN tresses
    /\ ~ Expired(1)
    /\ tresses[1].owner_id = 1
    /\ tresses[1].content = sanitize_content(ContentPython)
    /\ read_tress_raw(1, "ip1", 1,
            "If-None-Match" :> generate_etag(tresses[1].content)).response.status = 304
    /\ read_tress_raw(1, "ip1", 1,
            "If-None-Match" :> (<<"\"">> \o generate_etag(sanitize_content(ContentMarkup))
                                  \o <<"\"">>)).response.status = 200

\* C15: an update that is answered 200 leaves id, owner_id, owner_username
\* and created_at of the row as they were; without expires_in_days it leaves
\* expires_at too, with expires_in_days = d the row's expires_at is the
\* instant of the update plus d days; and the response is the row as stored.
C15_UpdateFrame ==
    \A id \in TressIds, tress \in TressCreates, ip \in StoreIps, u \in CurrentUsers :
        LET out == put(id, tress, ip, u)
        IN  out.response.status = 200 =>
              LET old == tresses[id]
                  new == out.tresses[id]
              IN  /\ new.id = old.id
                  /\ new.owner_id = old.owner_id
                  /\ new.owner_username = old.owner_username
                  /\ new.created_at = old.created_at
                  /\ new.expires_at
                        = IF tress.expires_in_days = None THEN old.expires_at
                          ELSE now + tress.expires_in_days * Day
                  /\ out.response.body = new

\* C15 witness: user 1's row was created earlier without an expiry; an update
\* with expires_in_days = 1 sets expires_at one day after the update, and an
\* update without it leaves the row without an expiry.
C15_Witness ==
    /\ 1 \in DOMAIN tresses
    /\ tresses[1].owner_id = 1
    /\ tresses[1].created_at < now
    /\ tresses[1].expires_at = None
    /\ \E tress \in TressCreates :
          /\ tress.expires_in_days = 1
          /\ put(1, tress, "ip1", 1).response.status = 200
          /\ put(1, tress, "ip1", 1).tresses[1].expires_at = now + Day
          /\ put(1, tress, "ip1", 1).tresses[1].expires_at
                # tresses[1].created_at + Day
    /\ \E tress \in TressCreates :
          /\ tress.expires_in_days = None
          /\ put(1, tress, "ip1", 1).response.status = 200
          /\ put(1, tress, "ip1", 1).tresses[1].expires_at = None

\* C14: sanitize_content applied to its own result returns that result: the
\* text after two calls is the text after one.
C14_SanitizeIdempotent ==
    sample.calls = 2 => sample.result = sanitize_content(sample.content)

C17_OwnerUsername ==
    \A id \in DOMAIN tresses :
        /\ tresses[id].id = id
        /\ tresses[id].owner_username
              = IF tresses[id].owner_id = None THEN "Anonymous"
                ELSE username_of(tresses[id].owner_id)

\* C17 witness: a row of user 1 that has been given an expiry by an update
\* (a create at the row's created_at would have set another).
C17_Witness ==
    /\ 1 \in DOMAIN tresses
    /\ tresses[1].owner_id = 1
    /\ tresses[1].owner_username = "alice"
    /\ tresses[1].expires_at # None
    /\ tresses[1].expires_at > tresses[1].created_at + MAX_EXPIRES_IN_DAYS * Day

\* The bytes of the UTF-8 encoding of a text.
Bytes(content) ==
    Len(content) + Cardinality({i \in 1..Len(content) : content[i] \in TwoByteChars})

\* A text of n bytes: n one-byte characters, or a two-byte character and
\* n - 2 one-byte characters.
Filler(n) == [i \in 1..n |-> "x"]

\* Texts at and one byte over each ceiling.
SizeProbes ==
    UNION {{Filler(n), <<"é">> \o Filler(n - 2)} :
              n \in {MAX_CONTENT_SIZE_ANONYMOUS, MAX_CONTENT_SIZE_ANONYMOUS + 1,
                      MAX_CONTENT_SIZE_AUTHENTICATED, MAX_CONTENT_SIZE_AUTHENTICATED + 1}}

SizeProbeBody(c) ==
    [title |-> "probe", content |-> c, language |-> "text",
     is_public |-> TRUE, expires_in_days |-> None]

\* C18: the ceilings are 262144 bytes for anonymous and 1048576 bytes for
\* authenticated submitters (scaled in the model); validate_content_size
\* accepts a text exactly when its UTF-8 length is at most the ceiling of the
\* class and raises 413 otherwise; a create applies the ceiling of its
\* submitter and an update the authenticated ceiling.
C18_SizeCeilings ==
    /\ SettingsMaxContentSizeAnonymous = 262144
    /\ SettingsMaxContentSizeAuthenticated = 1048576
    /\ MAX_CONTENT_SIZE_ANONYMOUS < MAX_CONTENT_SIZE_AUTHENTICATED
    /\ \A c \in SizeProbes \cup {<<>>}, a \in BOOLEAN :
          validate_content_size(c, a).status
              = IF Bytes(c) <= (IF a THEN MAX_CONTENT_SIZE_AUTHENTICATED
                                ELSE MAX_CONTENT_SIZE_ANONYMOUS)
                THEN 200 ELSE 413
    /\ \A c \in SizeProbes, ip \in StoreIps, u \in CurrentUsers :
          LET out == post(SizeProbeBody(c), ip, u)
          IN  out.response.status # 429 =>
                out.response.status
                    = IF Bytes(c) <= (IF u # None THEN MAX_CONTENT_SIZE_AUTHENTICATED
                                      ELSE MAX_CONTENT_SIZE_ANONYMOUS)
                      THEN 200 ELSE 413
    /\ \A id \in DOMAIN tresses, c \in SizeProbes, ip \in StoreIps :
          (tresses[id].owner_id # None /\ ~ Expired(id)) =>
              LET out == put(id, SizeProbeBody(c), ip, tresses[id].owner_id)
              IN  out.response.status # 429 =>
                    out.response.status
                        = IF Bytes(c) <= MAX_CONTENT_SIZE_AUTHENTICATED
                          THEN 200 ELSE 413

\* C18 witness: with a row of user 1 stored, a text of exactly the
\* authenticated ceiling is accepted from its owner by create and by update
\* and one byte more is refused with 413; an anonymous create is accepted at
\* the anonymous ceiling and refused one byte over it.
C18_Witness ==
    /\ 1 \in DOMAIN tresses
    /\ tresses[1].owner_id = 1
    /\ put(1, SizeProbeBody(Filler(MAX_CONTENT_SIZE_AUTHENTICATED)), "ip1", 1)
          .response.status = 200
    /\ put(1, SizeProbeBody(<<"é">> \o Filler(MAX_CONTENT_SIZE_AUTHENTICATED - 1)),
            "ip1", 1).response.status = 413
    /\ post(SizeProbeBody(Filler(MAX_CONTENT_SIZE_AUTHENTICATED)), "ip1", 1)
          .response.status = 200
    /\ post(SizeProbeBody(Filler(MAX_CONTENT_SIZE_ANONYMOUS)), "ip1", None)
          .response.status = 200
    /\ post(SizeProbeBody(Filler(MAX_CONTENT_SIZE_ANONYMOUS + 1)), "ip1", None)
          .response.status = 413

\* The pages and the page sizes asked for.
PageNumbers == 0..3
PageSizes == {0, 1, 2, MAX_PAGE_SIZE, MAX_PAGE_SIZE + 1}

\* The least count of pages of page_size rows that hold total rows.
CeilDiv(total, page_size) ==
    CHOOSE k \in 0..total :
        k * page_size >= total /\ (k > 0 => (k - 1) * page_size < total)

\* What C19 asks of the response r to a request for page of page_size, when
\* the rows that match are live and the query returned them as result.
PageAsClaimed(r, page, page_size, live, result) ==
    LET out == r
    IN  IF page < 1 \/ page_size < 1 \/ page_size > 100
        THEN out.status = 400
        ELSE /\ out.status = 200
             /\ LET total == Cardinality(live)
                    first == (page - 1) * page_size
                    items == out.body.items
                    info == out.body.pagination
                    pages == info.total_pages
                    held == Len(items)
                IN  /\ IdsOf(result) = live
                    /\ info.total_items = total
                    /\ pages = CeilDiv(total, page_size)
                    /\ info.has_next = (page < pages)
                    /\ info.has_prev = (page > 1)
                    /\ held = Max(0, Min(page_size, total - first))
                    /\ \A i \in 1..held : items[i].id = result[first + i].id
                    /\ \A i \in 1..(held - 1) :
                          items[i].created_at >= items[i + 1].created_at

\* C19: the paginated public list and the paginated list of a user answer
\* 400 to a page below 1 or a page_size outside 1..100; otherwise, for T
\* rows that match and have not expired, total_items = T, total_pages =
\* ceil(T / page_size), has_next = (page < total_pages), has_prev =
\* (page > 1), and the items are the rows at positions (page - 1) * page_size
\* .. page * page_size - 1 of the matching rows by created_at descending.
C19_Pagination ==
    /\ \A result \in orderings_created_at_desc(public_rows(now)) :
          \A page \in PageNumbers, page_size \in PageSizes, u \in {None, 1} :
              LET r == read_public_tresses_paginated(page, page_size, "ip1", u, result)
                          .response
              IN  r.status # 429 =>
                    PageAsClaimed(r, page, page_size, LivePublic, result)
    /\ \A u \in UserIds :
          \A result \in orderings_created_at_desc(owned_rows(u, now)) :
              \A page \in PageNumbers, page_size \in PageSizes :
                  PageAsClaimed(
                      read_user_tresses_paginated(page, page_size, u, result).response,
                      page, page_size, LiveOwned(u), result)

\* C19 witness: three public rows match; page 1 of size 2 has two items and
\* a next page, page 2 has one item and a previous page, of two pages.
C19_Witness ==
    /\ Cardinality(LivePublic) = 3
    /\ \E result \in orderings_created_at_desc(public_rows(now)) :
          LET p1 == read_public_tresses_paginated(1, 2, "ip1", 1, result).response.body
              p2 == read_public_tresses_paginated(2, 2, "ip1", 1, result).response.body
          IN  /\ Len(p1.items) = 2
              /\ p1.pagination.total_pages = 2
              /\ p1.pagination.has_next /\ ~ p1.pagination.has_prev
              /\ Len(p2.items) = 1
              /\ ~ p2.pagination.has_next /\ p2.pagination.has_prev
              /\ p1.items[1].created_at > p2.items[1].created_at

\* What C20 asks of the outcome o of a public list request that an anonymous
\* client sent from ip: 429 when the public_read quota of the client is used
\* up, and one more instant of the client in the window when it is accepted.
ListLimited(o, ip) ==
    LET out == o
    IN  /\ ~ is_allowed(requests, ip, "public_read", now) =>
              out.response.status = 429
        /\ out.response.status = 200 =>
              CountIn(out.requests[ip], now - Window, now)
                  = CountIn(requests[ip], now - Window, now) + 1

\* The paginated public list, asked by an anonymous client.
PaginatedListLimited ==
    \A ip \in StoreIps, result \in orderings_created_at_desc(public_rows(now)) :
        ListLimited(read_public_tresses_paginated(1, 1, ip, None, result), ip)

\* The plain public list: the handler takes neither the request nor the
\* caller, so an anonymous client from any address gets the same outcome.
PlainListLimited ==
    \A ip \in StoreIps, result \in orderings(public_rows(now)) :
        ListLimited(read_tresses(0, 100, result), ip)

\* C20: both forms of the public list, the plain GET /api/tress/ and the
\* paginated GET /api/tress/public/pages, apply the public_read limit to
\* anonymous callers: a client whose public_read quota is used up is answered
\* 429 by either form, and each accepted anonymous list request consumes one
\* public_read slot.
C20_PublicListsLimited == PaginatedListLimited /\ PlainListLimited

\* The bodies of the updates whose checks are compared: one that passes every
\* check, one over the ceiling, one that does not match its language, and one
\* that is both over the ceiling and not of its language.
UpdateProbes ==
    {TressCreate([title |-> "probe", content |-> c, language |-> l], TRUE, None) :
        c \in {ContentMarkup, ContentLarge}, l \in {"text", "Python"}}

\* The status C21 gives an update: that of the first check that fails, in
\* the order rate limit, fetch and expiry, ownership, size, language.
update_status_as_claimed(tress_id, tress, client_ip, current_user) ==
    IF ~ is_allowed(requests, client_ip, "default", now) THEN 429
    ELSE IF tress_id \notin DOMAIN tresses \/ Expired(tress_id) THEN 404
    ELSE IF tresses[tress_id].owner_id # current_user THEN 403
    ELSE IF Bytes(tress.content) > MAX_CONTENT_SIZE_AUTHENTICATED THEN 413
    ELSE IF ~ validate_content_type(tress.language, tress.content) THEN 400
    ELSE 200

\* C21: an update applies its checks in the order rate limit (default),
\* fetch, expiry, ownership, size, sanitize, language, resolve expiry,
\* persist, and the first check that fails alone determines the outcome: 429
\* before 404, 404 (absent or expired) before 403 (not the owner), 403 before
\* 413, 413 before the 400 of the language; the row is replaced only when
\* every check passed.
C21_UpdateCheckOrder ==
    \A id \in TressIds, tress \in UpdateProbes, ip \in StoreIps, u \in UserIds :
        LET out == update_tress(id, tress, ip, u)
            claimed == update_status_as_claimed(id, tress, ip, u)
        IN  /\ out.response.status = claimed
            /\ claimed # 200 => out.tresses = tresses
            /\ claimed = 200 =>
                  /\ out.tresses[id].content = sanitize_content(tress.content)
                  /\ out.tresses[id].language = tress.language
                  /\ \A other \in DOMAIN tresses \ {id} :
                        out.tresses[other] = tresses[other]

\* C21 witness: a row of user 1 has expired and the client is within its
\* quota; user 2 sends an update that is over the ceiling and not of its
\* language, so that four checks would fail, and gets the 404 of the first;
\* the owner gets the 404 as well, and for a row that is absent too.
C21_Witness ==
    \E id \in DOMAIN tresses :
        LET tress == TressCreate([title |-> "probe", content |-> ContentLarge,
                                  language |-> "Python"], TRUE, None)
        IN  /\ is_allowed(requests, "ip1", "default", now)
            /\ Expired(id)
            /\ tresses[id].owner_id = 1
            /\ Bytes(tress.content) > MAX_CONTENT_SIZE_AUTHENTICATED
            /\ ~ validate_content_type(tress.language, tress.content)
            /\ update_tress(id, tress, "ip1", 2).response.status = 404
            /\ update_tress(id, tress, "ip1", 1).response.status = 404

\* What C22 asks of one step: a row that leaves the table was deleted by its
\* owner, or by the commit of a sweep, and then its expires_at is present and
\* neither after the instant the sweep captured nor after the present; the
\* commit of a sweep removes every such row and changes no other.
C22_Step ==
    /\ \A id \in DOMAIN tresses \ DOMAIN tresses' :
          \/ /\ reaper.at = "deleted" /\ reaper'.at = "returned"
             /\ tresses[id].expires_at # None
             /\ tresses[id].expires_at <= reaper.now
             /\ tresses[id].expires_at <= now
          \/ /\ reaper' = reaper
             /\ tresses[id].owner_id # None
             /\ tresses' = delete(id, tresses[id].owner_id).tresses
    /\ reaper.at = "deleted" /\ reaper'.at = "returned" =>
          /\ DOMAIN tresses' =
                {id \in DOMAIN tresses :
                    tresses[id].expires_at = None \/ tresses[id].expires_at > reaper.now}
          /\ \A id \in DOMAIN tresses' : tresses'[id] = tresses[id]

\* C22: a row leaves the table only by the delete of its owner or by a sweep
\* of the reaper, and a sweep removes exactly the rows whose expires_at is
\* present and <= the now of the sweep: however the sweep interleaves with
\* creates and updates, it never removes a row whose expires_at is absent or
\* still in the future when the bulk delete happens.
C22_OnlyOwnerOrSweepRemoves == [][C22_Step]_vars

\* C22 witness: a sweep has captured its now and executed its bulk delete,
\* and its commit is pending; the table holds a row that had expired by then,
\* a row created after the sweep began whose expiry lies in the future, and
\* so the commit has rows to remove and rows to keep.
C22_Witness ==
    /\ reaper.at = "deleted"
    /\ \E a, b \in DOMAIN tresses :
          /\ tresses[a].expires_at # None
          /\ tresses[a].expires_at <= reaper.now
          /\ tresses[b].created_at > reaper.now
          /\ tresses[b].expires_at # None
          /\ tresses[b].expires_at > now

\* C23: every expired row is eventually removed: while the reaper task runs
\* and the store eventually stops failing, a row whose expires_at has passed
\* is deleted by some later sweep (the first sweep runs at startup before any
\* wait, and a sweep that failed is always followed by another).
C23_ExpiredEventuallyRemoved ==
    \A id \in 1..MaxSweepId :
        (id \in DOMAIN tresses /\ Expired(id)) ~> (id \notin DOMAIN tresses)

\* C23 witness: a sweep has failed and the loop sleeps its five minutes while
\* an expired row is still in the table.
C23_Witness ==
    /\ reaper.at = "sleep"
    /\ reaper.sleep = RETRY_INTERVAL
    /\ \E id \in DOMAIN tresses : Expired(id)

\* The ceiling that applied to the request that wrote a row: a row without
\* an owner was written by an anonymous create and is never updated; a row
\* with an owner was written by the create or an update of a user.
ceiling_of_writer(tress) ==
    IF tress.owner_id = None
    THEN MAX_CONTENT_SIZE_ANONYMOUS
    ELSE MAX_CONTENT_SIZE_AUTHENTICATED

\* C24: the stored content is size-limited: in every reachable state the
\* UTF-8 length of the content of each row is at most the ceiling that
\* applied to the request that wrote it (256 KiB for an anonymous create,
\* 1 MiB for the create of a user or an update), the size check being made on
\* the submitted text and the stored text being the escaped one.
C24_StoredWithinCeiling ==
    \A id \in DOMAIN tresses :
        Bytes(tresses[id].content) <= ceiling_of_writer(tresses[id])

\* The values of If-None-Match a conditional request may carry: the tag of
\* each content the table comes to hold, in quotes and without, and a value
\* that is the tag of none.
ConditionalTags ==
    UNION {{generate_etag(c), <<"\"">> \o generate_etag(c) \o <<"\"">>} :
              c \in StoredContents}
        \cup {<<"*">>}

\* C25: get-raw answers 304 only after the fetch, the expiry check and the
\* visibility check have passed: a conditional request, whatever its
\* If-None-Match and also with the tag of the content, is answered 404 for a
\* row that is absent or has expired and 403 for a private row asked for by
\* an anonymous requester or a user who is not its owner; a 304 is given only
\* for a row the requester may read.
C25_NotModifiedOnlyIfReadable ==
    \A id \in TressIds, ip \in StoreIps, u \in CurrentUsers, tag \in ConditionalTags :
        LET r == read_tress_raw(id, ip, u, "If-None-Match" :> tag).response
            absent == id \notin DOMAIN tresses \/ Expired(id)
        IN  r.status # 429 =>
              /\ absent => r.status = 404
              /\ ~ absent /\ ~ Readable(id, u) => r.status = 403
              /\ r.status = 304 =>
                    /\ ~ absent
                    /\ Readable(id, u)
                    /\ strip_quotes(tag) = generate_etag(tresses[id].content)

\* C25 witness: a private row of user 1 is in the table and has not expired;
\* user 2 and an anonymous client within its quota send the tag of its
\* content and get 403, while the owner gets 304 for the same request.
C25_Witness ==
    \E id \in DOMAIN tresses :
        LET headers == "If-None-Match" :> generate_etag(tresses[id].content)
        IN  /\ ~ tresses[id].is_public
            /\ tresses[id].owner_id = 1
            /\ ~ Expired(id)
            /\ is_allowed(requests, "ip1", "raw_content", now)
            /\ read_tress_raw(id, "ip1", 2, headers).response.status = 403
            /\ read_tress_raw(id, "ip1", None, headers).response.status = 403
            /\ read_tress_raw(id, "ip1", 1, headers).response.status = 304

====
